---------------------------- MODULE Spec2Model ----------------------------
(***************************************************************************)
(* Model of LRN.localResponseNormalization (src/src/ops/lrn.ts): the       *)
(* operator binding that validates its arguments, adapts a rank-3 input    *)
(* to rank 4, runs the 'LRN4D' kernel through the engine and adapts the    *)
(* result back.                                                            *)
(*                                                                         *)
(* Numbers.  radius and beta may be fractional (2.5, 0.5); they are kept   *)
(* in HALVES: the model value 5 stands for 2.5 and 10 for 5.  bias, alpha  *)
(* and the tensor elements are integers.  A kernel output element          *)
(* x / (bias + alpha * sumSq) ^ beta is kept as the term                   *)
(* [num |-> x, base |-> bias + alpha * sumSq, beta |-> beta].              *)
(*                                                                         *)
(* Tensors.  A tensor is [shape, dataId]; the element values live in the   *)
(* heap `data`, dataId -> flat row-major sequence, so that two tensors     *)
(* that share a dataId alias each other.                                   *)
(***************************************************************************)
EXTENDS Integers, Sequences, FiniteSets

\* ------------------------------------------------------------ bounds
\* Largest number of elements of an input tensor.
MaxElems == 3
\* Input elements are drawn from 1..MaxVal.
MaxVal == 3

\* -------------------------------------------------- program constants
\* Defaults of the parameters (lrn.ts:44); DefaultBetaHalves is 0.5 in halves.
DefaultRadius == 5
DefaultBias == 1
DefaultAlpha == 1
DefaultBetaHalves == 1
DefaultNormRegion == "acrossChannels"

\* A number n in halves.
Halves(n) == n + n

Regions == {"acrossChannels", "withinChannel"}

\* ------------------------------------------------------------ helpers
Max(a, b) == IF a >= b THEN a ELSE b
Min(a, b) == IF a <= b THEN a ELSE b

RECURSIVE SizeFrom(_, _)
SizeFrom(shape, i) ==
    IF i > Len(shape) THEN 1 ELSE shape[i] * SizeFrom(shape, i + 1)
\* util.sizeFromShape: the number of elements of a shape.
Size(shape) == SizeFrom(shape, 1)

NoTensor == [shape |-> <<>>, dataId |-> 0]
NoError == [constraint |-> "", value |-> 0, by |-> ""]
NoArgs == [radius |-> 0, bias |-> 0, alpha |-> 0, beta |-> 0, normRegion |-> ""]
NoCall == [radius |-> <<>>, bias |-> <<>>, alpha |-> <<>>, beta |-> <<>>,
           normRegion |-> <<>>]

VARIABLES
    pc,            \* position in localResponseNormalization
    call,          \* the arguments as the caller passed them (<<>>: omitted)
    x,             \* the parameter x
    args,          \* the parameters radius, bias, alpha, beta, normRegion
    x4D,           \* local x4D
    reshapedTo4D,  \* local reshapedTo4D
    res,           \* local res
    result,        \* the returned tensor
    error,         \* the thrown error
    data,          \* heap: dataId -> flat element sequence
    kernelLog      \* the executeKernel requests of this call

vars == <<pc, call, x, args, x4D, reshapedTo4D, res, result, error, data, kernelLog>>


\* ---------------------------------------------------------------- inputs
Ranks == {2, 3, 4}
Shapes == {s \in UNION {[1..r -> 1..MaxElems] : r \in Ranks} : Size(s) <= MaxElems}
\* radius in halves: omitted, -1, 0, 1 and 2.5
RadiusInputs == {<<>>, <<Halves(-1)>>, <<Halves(0)>>, <<Halves(1)>>, <<5>>}
BiasInputs == {<<>>, <<2>>}
AlphaInputs == {<<>>, <<3>>}
\* beta in halves: omitted and 1.0
BetaInputs == {<<>>, <<Halves(1)>>}
RegionInputs == {<<>>, <<"acrossChannels">>, <<"withinChannel">>, <<"diagonal">>}
\* The argument lists a caller can write: arguments are positional, so an
\* omitted argument is followed only by omitted arguments.
Calls ==
    {c \in [radius : RadiusInputs, bias : BiasInputs, alpha : AlphaInputs,
            beta : BetaInputs, normRegion : RegionInputs] :
        /\ c.radius = <<>> => c.bias = <<>>
        /\ c.bias = <<>> => c.alpha = <<>>
        /\ c.alpha = <<>> => c.beta = <<>>
        /\ c.beta = <<>> => c.normRegion = <<>>}

\* ------------------------------------------------- tensor and util library
\* util.isInt(a): a % 1 === 0, on a number kept in halves.
isInt(a) == a % 2 = 0

\* Tensor.as4D / Tensor.as3D: a new tensor of the given shape over the same data.
Reshape(t, shape) == [shape |-> shape, dataId |-> t.dataId]

\* ------------------------------------------------------------ LRN4D kernel
\* Element (n, h, w, c) of a rank-4 tensor in its flat row-major sequence.
Offset(shape, n, h, w, c) ==
    ((n * shape[2] + h) * shape[3] + w) * shape[4] + c + 1

\* The coordinates of flat position i of a rank-4 tensor.
Coords(shape, i) ==
    LET k == i - 1
    IN  [n |-> k \div (shape[2] * shape[3] * shape[4]),
         h |-> (k \div (shape[3] * shape[4])) % shape[2],
         w |-> (k \div shape[4]) % shape[3],
         c |-> k % shape[4]]

RECURSIVE SumAcrossFrom(_, _, _, _, _, _, _)
SumAcrossFrom(shape, xs, n, h, w, j, hi) ==
    IF j > hi THEN 0
    ELSE xs[Offset(shape, n, h, w, j)] * xs[Offset(shape, n, h, w, j)]
         + SumAcrossFrom(shape, xs, n, h, w, j + 1, hi)

\* Sum of squares over the channels [max(0, c - rad), min(C - 1, c + rad)].
SumAcrossChannels(shape, xs, p, rad) ==
    SumAcrossFrom(shape, xs, p.n, p.h, p.w,
                  Max(0, p.c - rad), Min(shape[4] - 1, p.c + rad))

RECURSIVE SumRowFrom(_, _, _, _, _, _, _)
SumRowFrom(shape, xs, n, u, c, v, hi) ==
    IF v > hi THEN 0
    ELSE xs[Offset(shape, n, u, v, c)] * xs[Offset(shape, n, u, v, c)]
         + SumRowFrom(shape, xs, n, u, c, v + 1, hi)

RECURSIVE SumWithinFrom(_, _, _, _, _, _)
SumWithinFrom(shape, xs, p, rad, u, hi) ==
    IF u > hi THEN 0
    ELSE SumRowFrom(shape, xs, p.n, u, p.c,
                    Max(0, p.w - rad), Min(shape[3] - 1, p.w + rad))
         + SumWithinFrom(shape, xs, p, rad, u + 1, hi)

\* Sum of squares over the spatial window [h - rad, h + rad] x [w - rad, w + rad],
\* clamped to the tensor, at the channel of p.
SumWithinChannel(shape, xs, p, rad) ==
    SumWithinFrom(shape, xs, p, rad,
                  Max(0, p.h - rad), Min(shape[2] - 1, p.h + rad))

\* out[n,h,w,c] = x[n,h,w,c] / (bias + alpha * sumSq) ^ beta, as a term.
LRN4DElem(shape, xs, a, i) ==
    LET p == Coords(shape, i)
        rad == a.radius \div 2
        sumSq == IF a.normRegion = "withinChannel"
                 THEN SumWithinChannel(shape, xs, p, rad)
                 ELSE SumAcrossChannels(shape, xs, p, rad)
    IN  [num |-> xs[i], base |-> a.bias + a.alpha * sumSq, beta |-> a.beta]

\* The kernel's output elements.
LRN4DValues(shape, xs, a) ==
    [i \in 1..Len(xs) |-> LRN4DElem(shape, xs, a, i)]

\* The kernel's validation at entry: NoError, or the InvalidArgument it raises.
LRN4DCheck(shape, a) ==
    IF Len(shape) # 4
    THEN [constraint |-> "rank", value |-> Len(shape), by |-> "kernel"]
    ELSE IF ~(isInt(a.radius) /\ a.radius >= 0)
    THEN [constraint |-> "radius", value |-> a.radius, by |-> "kernel"]
    ELSE IF a.normRegion \notin Regions
    THEN [constraint |-> "normRegion", value |-> a.normRegion, by |-> "kernel"]
    ELSE NoError

\* The fresh buffer the kernel allocates for its output.
NewDataId(heap) == Cardinality(DOMAIN heap) + 1

\* ------------------------------------------- localResponseNormalization
\* A parameter with a default value: the argument, or the default when omitted.
Param(a, d) == IF a = <<>> THEN d ELSE a[1]

\* EntryArgs with a wrong default for beta (1.0 instead of 0.5).
EntryArgsWrongBeta(c) ==
    [radius |-> Param(c.radius, Halves(DefaultRadius)),
     bias |-> Param(c.bias, DefaultBias),
     alpha |-> Param(c.alpha, DefaultAlpha),
     beta |-> Param(c.beta, Halves(DefaultBetaHalves)),
     normRegion |-> Param(c.normRegion, DefaultNormRegion)]

\* The parameters on entry (lrn.ts:44-45).
EntryArgs(c) ==
    [radius |-> Param(c.radius, Halves(DefaultRadius)),
     bias |-> Param(c.bias, DefaultBias),
     alpha |-> Param(c.alpha, DefaultAlpha),
     beta |-> Param(c.beta, DefaultBetaHalves),
     normRegion |-> Param(c.normRegion, DefaultNormRegion)]

\* RankOk that only bounds the rank from above.
RankOkUpTo4(rank) == rank <= 4

\* x.rank === 4 || x.rank === 3
RankOk(rank) == rank = 4 \/ rank = 3

\* util.isInt(radius)
RadiusOk(radius) == isInt(radius)

\* As4DShape with the last two dimensions exchanged.
As4DShapeTransposed(shape) == <<1, shape[1], shape[3], shape[2]>>

\* x.as4D(1, x.shape[0], x.shape[1], x.shape[2])
As4DShape(shape) == <<1, shape[1], shape[2], shape[3]>>

\* KernelArgs with bias and alpha exchanged.
KernelArgsSwapped(radius, bias, alpha, beta, normRegion) ==
    [radius |-> radius, bias |-> alpha, alpha |-> bias, beta |-> beta,
     normRegion |-> normRegion]

\* args: {radius, bias, alpha, beta, normRegion}
KernelArgs(radius, bias, alpha, beta, normRegion) ==
    [radius |-> radius, bias |-> bias, alpha |-> alpha, beta |-> beta,
     normRegion |-> normRegion]

\* The request handed to ENV.engine.executeKernel.
KernelRequest(t, a) ==
    [name |-> "LRN4D", x |-> t,
     args |-> KernelArgs(a.radius, a.bias, a.alpha, a.beta, a.normRegion)]

\* As3DShape that keeps the first three dimensions instead of the last three.
As3DShapeKeepBatch(shape) == <<shape[1], shape[2], shape[3]>>

\* res.as3D(res.shape[1], res.shape[2], res.shape[3])
As3DShape(shape) == <<shape[2], shape[3], shape[4]>>

\* Returned that strips the leading dimension whatever the input's rank.
ReturnedAlwaysStripped(r, reshaped) == Reshape(r, As3DShape(r.shape))

\* The value returned (lrn.ts:63-67).
Returned(r, reshaped) ==
    IF reshaped THEN Reshape(r, As3DShape(r.shape)) ELSE r

\* The element values a call returns for the input (shape, xs) with the
\* parameters a, when no check fails (lrn.ts:54-67).
NormalizedElem(shape, xs, a, i) ==
    LRN4DElem(IF Len(shape) = 3 THEN As4DShape(shape) ELSE shape, xs,
              KernelArgs(a.radius, a.bias, a.alpha, a.beta, a.normRegion), i)

Init ==
    /\ pc = "idle"
    /\ call = NoCall
    /\ x = NoTensor
    /\ args = NoArgs
    /\ x4D = NoTensor
    /\ reshapedTo4D = FALSE
    /\ res = NoTensor
    /\ result = NoTensor
    /\ error = NoError
    /\ data = <<>>
    /\ kernelLog = <<>>

\* A caller invokes localResponseNormalization(x, radius, bias, alpha, beta,
\* normRegion); the defaults are bound on entry.
Call ==
    /\ pc = "idle"
    /\ \E shape \in Shapes, c \in Calls :
         \E xs \in [1..Size(shape) -> 1..MaxVal] :
            /\ call' = c
            /\ x' = [shape |-> shape, dataId |-> 1]
            /\ data' = <<xs>>
    /\ args' = EntryArgs(call')
    /\ pc' = "assertRank"
    /\ UNCHANGED <<x4D, reshapedTo4D, res, result, error, kernelLog>>

\* util.assert(x.rank === 4 || x.rank === 3, ...) (lrn.ts:46-49)
AssertRank ==
    /\ pc = "assertRank"
    /\ IF RankOk(Len(x.shape))
       THEN /\ pc' = "assertRadius"
            /\ UNCHANGED error
       ELSE /\ pc' = "thrown"
            /\ error' = [constraint |-> "rank", value |-> Len(x.shape),
                         by |-> "localResponseNormalization"]
    /\ UNCHANGED <<call, x, args, x4D, reshapedTo4D, res, result, data, kernelLog>>

\* util.assert(util.isInt(radius), ...) (lrn.ts:50-53)
AssertRadius ==
    /\ pc = "assertRadius"
    /\ IF RadiusOk(args.radius)
       THEN /\ pc' = "reshape"
            /\ UNCHANGED error
       ELSE /\ pc' = "thrown"
            /\ error' = [constraint |-> "radius", value |-> args.radius,
                         by |-> "localResponseNormalization"]
    /\ UNCHANGED <<call, x, args, x4D, reshapedTo4D, res, result, data, kernelLog>>

\* AdaptRank that reshapes the caller's tensor in place.
AdaptRankInPlace ==
    /\ pc = "reshape"
    /\ IF Len(x.shape) = 3
       THEN /\ reshapedTo4D' = TRUE
            /\ x' = Reshape(x, As4DShape(x.shape))
       ELSE /\ reshapedTo4D' = FALSE
            /\ x' = x
    /\ x4D' = x'
    /\ pc' = "kernel"
    /\ UNCHANGED <<call, args, res, result, error, data, kernelLog>>

\* let x4D = x; if (x.rank === 3) { reshapedTo4D = true; x4D = x.as4D(...) }
\* (lrn.ts:54-59)
AdaptRank ==
    /\ pc = "reshape"
    /\ IF Len(x.shape) = 3
       THEN /\ reshapedTo4D' = TRUE
            /\ x4D' = Reshape(x, As4DShape(x.shape))
       ELSE /\ reshapedTo4D' = FALSE
            /\ x4D' = x
    /\ pc' = "kernel"
    /\ UNCHANGED <<call, x, args, res, result, error, data, kernelLog>>

\* const res = ENV.engine.executeKernel('LRN4D', ...) (lrn.ts:60-62): the
\* kernel accepts the request and returns a new tensor.
ExecuteKernel ==
    /\ pc = "kernel"
    /\ LET req == KernelRequest(x4D, args)
       IN  /\ LRN4DCheck(req.x.shape, req.args) = NoError
           /\ kernelLog' = Append(kernelLog, req)
           /\ res' = [shape |-> req.x.shape, dataId |-> NewDataId(data)]
           /\ data' = Append(data, LRN4DValues(req.x.shape, data[req.x.dataId], req.args))
    /\ pc' = "return"
    /\ UNCHANGED <<call, x, args, x4D, reshapedTo4D, result, error>>

\* The same call, when the kernel rejects the request at its entry.
ExecuteKernelThrows ==
    /\ pc = "kernel"
    /\ LET req == KernelRequest(x4D, args)
       IN  /\ LRN4DCheck(req.x.shape, req.args) # NoError
           /\ kernelLog' = Append(kernelLog, req)
           /\ error' = LRN4DCheck(req.x.shape, req.args)
    /\ pc' = "thrown"
    /\ UNCHANGED <<call, x, args, x4D, reshapedTo4D, res, result, data>>

\* if (reshapedTo4D) return res.as3D(...) else return res (lrn.ts:63-67)
Return ==
    /\ pc = "return"
    /\ result' = Returned(res, reshapedTo4D)
    /\ pc' = "done"
    /\ UNCHANGED <<call, x, args, x4D, reshapedTo4D, res, error, data, kernelLog>>

\* The call is over; the wrapper keeps nothing of it.
Finish ==
    /\ pc \in {"done", "thrown"}
    /\ pc' = "idle"
    /\ call' = NoCall
    /\ x' = NoTensor
    /\ args' = NoArgs
    /\ x4D' = NoTensor
    /\ reshapedTo4D' = FALSE
    /\ res' = NoTensor
    /\ result' = NoTensor
    /\ error' = NoError
    /\ data' = <<>>
    /\ kernelLog' = <<>>

Next ==
    \/ Call
    \/ AssertRank
    \/ AssertRadius
    \/ AdaptRank
    \/ ExecuteKernel
    \/ ExecuteKernelThrows
    \/ Return
    \/ Finish

Spec == Init /\ [][Next]_vars


\* ======================================================================
\* Properties
\* ======================================================================
Active == pc # "idle"
Rank == Len(x.shape)
\* The call's input passes the documented validation: rank 3 or 4, integer radius.
ValidCall == Rank \in {3, 4} /\ args.radius % 2 = 0

\* C1: every call that passes validation and returns, returns a tensor of the
\* input's rank with the input's size in every dimension.
C1_ShapePreserved ==
    pc = "done" => /\ ValidCall
                   /\ Len(result.shape) = Rank
                   /\ \A d \in 1..Rank : result.shape[d] = x.shape[d]

\* A rank-3 input with more than one channel has been normalized and returned.
C1_Witness ==
    pc = "done" /\ Rank = 3 /\ x.shape[3] > 1 /\ reshapedTo4D

\* C2: a call with a rank other than 3 or 4, or with a non-integer radius,
\* never gets past the checks, returns no tensor, and the error it throws names
\* the violated constraint and the offending value.
C2_InvalidRejected ==
    (Active /\ ~ValidCall) =>
        /\ pc \in {"assertRank", "assertRadius", "thrown"}
        /\ result = NoTensor
        /\ pc = "thrown" =>
              error = IF Rank \notin {3, 4}
                      THEN [constraint |-> "rank", value |-> Rank,
                            by |-> "localResponseNormalization"]
                      ELSE [constraint |-> "radius", value |-> args.radius,
                            by |-> "localResponseNormalization"]

\* A call with radius 2.5 on a rank-4 tensor has thrown.
C2_Witness ==
    /\ pc = "thrown"
    /\ Rank = 4
    /\ call.radius = <<5>>
    /\ error.constraint = "radius"
    /\ error.value = 5

\* C3: a call whose region is not one of the two recognized values never
\* reaches the kernel and returns nothing.
C3_RegionNeverReachesKernel ==
    (Active /\ args.normRegion \notin Regions) =>
        /\ kernelLog = <<>>
        /\ pc # "done"

\* C4: the kernel is never invoked with a negative radius.
C4_KernelRadiusNonNegative ==
    \A k \in 1..Len(kernelLog) : kernelLog[k].args.radius >= 0

\* C5: every failure is raised before the input is reshaped, before the
\* kernel is invoked and before any output exists.
C5_FailureBeforeComputation ==
    pc = "thrown" =>
        /\ ~reshapedTo4D
        /\ x4D = NoTensor
        /\ kernelLog = <<>>
        /\ res = NoTensor
        /\ result = NoTensor
        /\ Len(data) = 1

\* The channels of the window of channel c: max(0, c - r) <= c' <= min(C - 1, c + r).
Window(c, C, r) == {cc \in 0..(C - 1) : Max(0, c - r) <= cc /\ cc <= Min(C - 1, c + r)}

RECURSIVE SumSqOver(_, _)
SumSqOver(S, xs) ==
    IF S = {} THEN 0
    ELSE LET j == CHOOSE k \in S : TRUE
         IN  xs[j] * xs[j] + SumSqOver(S \ {j}, xs)

\* C6: in across-channels mode every output element (n, h, w, c) is the input
\* element divided by (bias + alpha * sum of squares over the window of c) to
\* the power beta, the window being the channels within radius of c that exist;
\* with 3 channels and radius 5 that is all of them, and the input [1, 2, 3]
\* with radius 1, bias 1, alpha 1 gives the bases 6, 15, 14.
C6_AcrossChannels ==
    (pc \in {"return", "done"} /\ args.normRegion = "acrossChannels") =>
        LET shape == x4D.shape
            xs == data[x.dataId]
            out == data[res.dataId]
            r == args.radius \div 2
        IN  /\ Len(out) = Len(xs)
            /\ \A i \in 1..Len(xs) :
                  LET p == Coords(shape, i)
                      W == {Offset(shape, p.n, p.h, p.w, cc) :
                               cc \in Window(p.c, shape[4], r)}
                  IN  /\ out[i] = [num |-> xs[i],
                                   base |-> args.bias + args.alpha * SumSqOver(W, xs),
                                   beta |-> args.beta]
                      /\ (shape[4] = 3 /\ r = 5) =>
                              out[i].base = args.bias + args.alpha *
                                  (xs[i - p.c] * xs[i - p.c]
                                   + xs[i - p.c + 1] * xs[i - p.c + 1]
                                   + xs[i - p.c + 2] * xs[i - p.c + 2])
            /\ (xs = <<1, 2, 3>> /\ shape[4] = 3 /\ r = 1
                /\ args.bias = 1 /\ args.alpha = 1) =>
                    <<out[1].base, out[2].base, out[3].base>> = <<6, 15, 14>>

\* The input [1, 2, 3] along the channels has been normalized with radius 1.
C6_Witness ==
    /\ pc = "done"
    /\ args.normRegion = "acrossChannels"
    /\ data[x.dataId] = <<1, 2, 3>>
    /\ x.shape = <<1, 1, 1, 3>>
    /\ args.radius = Halves(1)
    /\ args.bias = 1 /\ args.alpha = 1

\* The spatial location of flat position i of the input.
Location(i) == (i - 1) \div x.shape[Rank]

\* The returned values are those of the call's input, and the value returned at
\* a position does not change when the input changes at another location.
SpatiallyIndependent ==
    LET xs == data[x.dataId]
        out == data[result.dataId]
    IN  \A i \in 1..Len(xs) :
           /\ out[i] = NormalizedElem(x.shape, xs, args, i)
           /\ \A j \in 1..Len(xs) : \A v \in 1..MaxVal :
                 Location(j) # Location(i) =>
                     NormalizedElem(x.shape, [xs EXCEPT ![j] = v], args, i) = out[i]

C8_InputUntouched ==
    /\ [][(pc # "idle" /\ pc' # "idle") =>
              (x' = x /\ data'[x.dataId] = data[x.dataId])]_vars
    /\ [](pc = "done" => (result.dataId # x.dataId /\ result.dataId \in DOMAIN data))

\* A rank-3 input has gone through the reshape, the kernel and the return.
C8_Witness ==
    pc = "done" /\ reshapedTo4D /\ Size(x.shape) > 1

\* C9: the kernel only receives rank-4 tensors; a rank-4 input as it is, a
\* rank-3 input (H, W, C) as (1, H, W, C) over the same elements; the result
\* loses its leading dimension, and nothing else, exactly when the input was
\* rank 3.
C9_RankAdaptation ==
    /\ \A k \in 1..Len(kernelLog) :
          LET t == kernelLog[k].x
          IN  /\ Len(t.shape) = 4
              /\ Rank = 4 => t = x
              /\ Rank = 3 => /\ t.shape = <<1>> \o x.shape
                             /\ data[t.dataId] = data[x.dataId]
    /\ pc = "done" =>
          /\ reshapedTo4D <=> Rank = 3
          /\ Rank = 3 => /\ result.shape = Tail(res.shape)
                         /\ data[result.dataId] = data[res.dataId]
          /\ Rank # 3 => result = res

\* The kernel has been invoked for a rank-3 input with several elements.
C9_Witness ==
    /\ pc = "done"
    /\ Rank = 3
    /\ Size(x.shape) > 1
    /\ Len(kernelLog) = 1

\* The call has passed the checks of lines 46-53.
PastChecks ==
    \/ pc \in {"return", "done"}
    \/ pc = "thrown" /\ error.by = "kernel"

\* C10: a call that passes validation invokes 'LRN4D' exactly once, with the
\* caller's radius, bias, alpha, beta and region, an omitted one being 5, 1, 1,
\* 0.5 and across channels; the request is a function of the call's arguments
\* alone.
C10_KernelRequest ==
    /\ PastChecks => Len(kernelLog) = 1
    /\ (Active /\ ~PastChecks) => kernelLog = <<>>
    /\ (ValidCall /\ pc \in {"done", "thrown"}) => Len(kernelLog) = 1
    /\ \A k \in 1..Len(kernelLog) :
          /\ kernelLog[k].name = "LRN4D"
          /\ DOMAIN kernelLog[k].args = {"radius", "bias", "alpha", "beta", "normRegion"}
          /\ kernelLog[k].args.radius =
                 (IF call.radius = <<>> THEN 10 ELSE call.radius[1])
          /\ kernelLog[k].args.bias = (IF call.bias = <<>> THEN 1 ELSE call.bias[1])
          /\ kernelLog[k].args.alpha = (IF call.alpha = <<>> THEN 1 ELSE call.alpha[1])
          /\ kernelLog[k].args.beta = (IF call.beta = <<>> THEN 1 ELSE call.beta[1])
          /\ kernelLog[k].args.normRegion =
                 (IF call.normRegion = <<>> THEN "acrossChannels"
                  ELSE call.normRegion[1])

\* A call that omits alpha, beta and the region has invoked the kernel.
C10_Witness ==
    /\ pc = "done"
    /\ call.bias = <<2>>
    /\ call.alpha = <<>>
    /\ Len(kernelLog) = 1

=============================================================================
